---- MODULE Spec2Model ----
(***************************************************************************)
(* OSCAR request pipeline: planning, safety analysis, tiered confirmation, *)
(* plan execution, audit logging and session history, as implemented in    *)
(* src/src/oscar/core/agent.py and src/src/oscar/core/safety.py.           *)
(*                                                                         *)
(* Python's None is the empty sequence <<>> for optional records and the   *)
(* string "None" for optional strings.                                     *)
(***************************************************************************)
EXTENDS Integers, Sequences, FiniteSets, TLC

\* ---- bounds -------------------------------------------------------------
MaxSteps == 3
MaxRequests == 1
MaxInteractions == 11
MaxScans == 3
MaxClients == 3
MaxSessions == 3
MaxSecond == 2
MaxStatsRequests == 3

\* ---- input domains ------------------------------------------------------
RiskLevels == {"low", "medium", "high", "dangerous"}

\* what a blocking call can do besides returning: raise an Exception
\* (EOFError, OSError, ...) or be interrupted (KeyboardInterrupt, which is a
\* BaseException and not an Exception)
FaultKinds == {"none", "Exception", "KeyboardInterrupt"}

\* lines typed at a yes/no prompt ("" is the bare Enter key)
YesNoInputs == {"y", "n", ""}

\* values returned by the CONFIRM prompt
LiteralInputs == {"CONFIRM", "confirm", "yes", ""}

\* values returned by getpass
PasswordInputs == {"", "secret"}

\* risk levels the planner declares for single steps: one level the analyzer
\* does not flag and one it flags
StepRisks == {"low", "high"}

\* the step ids of a plan of n steps: ascending or descending in plan order
IdOrders(n) == {[i \in 1..n |-> i], [i \in 1..n |-> n + 1 - i]}

\* ActionStep: id and declared risk level
StepSeqs ==
  UNION {{[i \in 1..n |-> [id |-> ids[i], risk_level |-> rs[i]]] :
            ids \in IdOrders(n), rs \in [1..n -> StepRisks]} : n \in 0..MaxSteps}

\* AgentPlan: the ordered steps and the planner's declared overall risk
Plans == [plan : StepSeqs, risk_level : RiskLevels]

NoPlan == [plan |-> <<>>, risk_level |-> "low"]

VARIABLES
  pc,             \* position of the agent in process_request
  dry_run_mode,   \* settings.dry_run_mode
  safe_mode,      \* settings.safe_mode
  requests,       \* number of process_request calls started
  plan,           \* the plan the planner returned for this request
  result,         \* the result dict of process_request
  analysis,       \* analysis["dangerous_steps"] of analyze_plan
  step_idx,       \* position of the per-step loop of the high-risk tier
  prompts,        \* the prompts issued in this request, in order
  audit_log,      \* lines of audit.jsonl
  history,        \* session.history
  execute_calls,  \* calls of _execute_plan in this request
  first_failing,  \* position of the first step whose tool would report
                  \* success = false, 0 when every tool would succeed
  tools_invoked,  \* step ids for which a tool's execute was called
  raised,         \* the fault that reached the try block of process_request
  failed_writes,  \* audit writes that failed so far
  session_context, \* lines of the memory adapter's session_context block
  scanner,        \* the attributes of the SafetyScanner instance
  scans,          \* the calls of analyze_plan so far: plan, analysis, tier
  tool_op,        \* the last operation of the tools layer: inputs and result
  cli,            \* the CLI loop: the clock and the agent of every request
  stats           \* what the last call of get_session_stats returned

vars == <<pc, dry_run_mode, safe_mode, requests, plan, result, analysis,
          step_idx, prompts, audit_log, history, execute_calls, first_failing,
          tools_invoked, raised, failed_writes, session_context,
          scanner, scans, tool_op, cli, stats>>

\* ---- result dict --------------------------------------------------------
InitialResult ==
  [stage |-> "input", success |-> FALSE, plan |-> <<>>,
   safety_report |-> <<>>, execution_result |-> <<>>, error |-> "None"]

\* ---- safety.py ----------------------------------------------------------
\* settings.py: the default dangerous_patterns of the safety configuration
DangerousPatterns ==
  <<"rm\\s+-rf\\s+/", "dd\\s+if=", "format\\s+c:", "del\\s+/s\\s+/q">>

\* a command is a sequence of fragments; str.lower of a fragment
lower(fragment) ==
  CASE fragment = "RM -RF /" -> "rm -rf /"
    [] fragment = "SUDO" -> "sudo"
    [] fragment = "Rate" -> "rate"
    [] fragment = "LIMIT" -> "limit"
    [] OTHER -> fragment

\* re.search(pattern, command, re.IGNORECASE): some fragment of the command,
\* whatever its case, is text the pattern matches
re_search(pattern, command) ==
  \E i \in 1..Len(command) :
    <<pattern, lower(command[i])>> \in
       {<<"rm\\s+-rf\\s+/", "rm -rf /">>, <<"dd\\s+if=", "dd if=">>,
        <<"format\\s+c:", "format c:">>, <<"del\\s+/s\\s+/q", "del /s /q">>}

\* word in command.lower()
in_lower(word, command) == \E i \in 1..Len(command) : lower(command[i]) = word

\* variant: a step whose command matches a dangerous pattern is flagged too
IsFlagged_or_pattern(step) ==
  \/ step.risk_level \in {"high", "dangerous"}
  \/ \E i \in 1..Len(DangerousPatterns) : re_search(DangerousPatterns[i], step.command)

IsFlagged(step) == step.risk_level \in {"high", "dangerous"}

\* variant: dangerous_steps are sorted by ascending id
analyze_plan_ascending(p) ==
  LET ids == {p.plan[i].id : i \in {j \in 1..Len(p.plan) : IsFlagged(p.plan[j])}}
  IN  [overall_risk |-> p.risk_level,
       dangerous_steps |->
          CHOOSE sq \in [1..Cardinality(ids) -> ids] :
            \A i, j \in 1..Cardinality(ids) : i < j => sq[i] < sq[j]]

\* variant: overall_risk is raised to the highest step risk level
analyze_plan_recomputed(p) ==
  LET flagged == SelectSeq(p.plan, IsFlagged)
  IN  [overall_risk |-> IF flagged # <<>> /\ p.risk_level \in {"low", "medium"}
                        THEN "high" ELSE p.risk_level,
       dangerous_steps |-> [i \in 1..Len(flagged) |-> flagged[i].id]]

\* analyze_plan: dangerous_steps are the ids of the steps whose declared
\* risk level is high or dangerous, in plan order
analyze_plan(p) ==
  LET flagged == SelectSeq(p.plan, IsFlagged)
  IN  [overall_risk |-> p.risk_level,
       dangerous_steps |-> [i \in 1..Len(flagged) |-> flagged[i].id]]

\* variant: the pattern loop stops at the first pattern that matches
pattern_flags_first_only(patterns, command) ==
  LET matched == SelectSeq(patterns, LAMBDA pt : re_search(pt, command))
  IN  IF matched = <<>> THEN <<>> ELSE <<"Dangerous pattern: " \o matched[1]>>

\* _analyze_step, the loop over dangerous_patterns: one flag for every
\* pattern that matches, in the order of the patterns
pattern_flags(patterns, command) ==
  LET matched == SelectSeq(patterns, LAMBDA pt : re_search(pt, command))
  IN  [i \in 1..Len(matched) |-> "Dangerous pattern: " \o matched[i]]

admin_indicators == <<"sudo", "administrator", "runas", "privilege", "admin">>
system_paths == <<"/system", "/boot", "c:\\windows", "system32", "/etc", "/usr/bin">>
network_indicators == <<"curl", "wget", "download", "upload", "http", "ftp">>

\* some word of the list is in command.lower()
any_in_lower(words, command) ==
  \E i \in 1..Len(words) : in_lower(words[i], command)

\* _analyze_step: the step's declared risk level is copied; the flags are
\* the pattern flags, one flag for administrative privileges, one flag for
\* every system path and one flag for network operations
analyze_step(step, patterns) ==
  LET paths == SelectSeq(system_paths, LAMBDA path : in_lower(path, step.command))
  IN  [step_id |-> step.id,
       risk_level |-> step.risk_level,
       flags |-> pattern_flags(patterns, step.command)
                 \o (IF any_in_lower(admin_indicators, step.command)
                     THEN <<"Requires administrative privileges">> ELSE <<>>)
                 \o [i \in 1..Len(paths) |-> "Accesses system directory: " \o paths[i]]
                 \o (IF any_in_lower(network_indicators, step.command)
                     THEN <<"Network operation detected">> ELSE <<>>),
       requires_admin |-> any_in_lower(admin_indicators, step.command),
       patterns_matched |-> SelectSeq(patterns, LAMBDA pt : re_search(pt, step.command))]

\* the flags of the first n step analyses, in order
RECURSIVE collect_flags(_, _)
collect_flags(step_analysis, n) ==
  IF n = 0 THEN <<>>
  ELSE collect_flags(step_analysis, n - 1) \o step_analysis[n].flags

\* _generate_recommendations
generate_recommendations(a, dry) ==
  (IF a.overall_risk = "dangerous"
   THEN <<"DANGER: This plan contains potentially destructive operations",
          "Consider running in dry-run mode first",
          "Ensure you have recent backups">>
   ELSE IF a.overall_risk = "high"
        THEN <<"HIGH RISK: This plan modifies system settings",
               "Review each step carefully before approval">>
        ELSE <<>>)
  \o (IF a.requires_admin THEN <<"Administrative privileges required">> ELSE <<>>)
  \o (IF Len(a.dangerous_steps) > 0
      THEN <<ToString(Len(a.dangerous_steps)) \o " steps require extra confirmation">>
      ELSE <<>>)
  \o (IF dry THEN <<"DRY RUN MODE: No actual changes will be made">> ELSE <<>>)

\* analyze_plan with every field of the analysis, for the scanner sc
safety_analysis(sc, p) ==
  LET step_analysis == [i \in 1..Len(p.plan) |->
                          analyze_step(p.plan[i], sc.safety_config.dangerous_patterns)]
      a == analyze_plan(p) @@
           [step_analysis |-> step_analysis,
            safety_flags |-> collect_flags(step_analysis, Len(step_analysis)),
            requires_admin |-> \E i \in 1..Len(step_analysis) :
                                  step_analysis[i].requires_admin]
  IN  a @@ [recommendations |-> generate_recommendations(a, sc.dry_run_mode)]

\* variant: a call of analyze_plan consumes the first pattern of the scanner
after_analyze_consumes(sc, p) ==
  [sc EXCEPT !.safety_config.dangerous_patterns =
     IF @ = <<>> THEN @ ELSE Tail(@)]

\* the scanner after analyze_plan: no attribute of self is assigned
after_analyze(sc, p) == sc

\* SafetyScanner.__init__
new_scanner(safe, dry) ==
  [safety_config |-> [dangerous_patterns |-> DangerousPatterns],
   safe_mode |-> safe,
   dry_run_mode |-> dry]

\* variant: every plan with flagged steps goes through the per-step prompts
FirstPrompt_by_flags(a) ==
  IF a.overall_risk = "dangerous" THEN "dangerous_literal"
  ELSE IF Len(a.dangerous_steps) > 0 THEN "high_step"
       ELSE IF a.overall_risk = "high" THEN "high_final" ELSE "standard"

\* variant: a high-risk plan without flagged steps gets the standard tier
FirstPrompt_high_needs_flags(a) ==
  IF a.overall_risk = "dangerous" THEN "dangerous_literal"
  ELSE IF a.overall_risk = "high" /\ Len(a.dangerous_steps) > 0 THEN "high_step"
       ELSE "standard"

\* get_user_confirmation: the tier is chosen from analysis["overall_risk"]
FirstPrompt(a) ==
  IF a.overall_risk = "dangerous" THEN "dangerous_literal"
  ELSE IF a.overall_risk = "high"
       THEN (IF Len(a.dangerous_steps) > 0 THEN "high_step" ELSE "high_final")
       ELSE "standard"

\* variant: Enter alone approves
confirm_ask_enter_approves(input, default) ==
  IF input = "" THEN TRUE ELSE input = "y"

\* rich's Confirm.ask(prompt, default=d): Enter alone gives the default
confirm_ask(input, default) ==
  IF input = "" THEN default ELSE input = "y"

create_safety_report(a, approved, reason) ==
  [overall_risk |-> a.overall_risk,
   dangerous_steps |-> Len(a.dangerous_steps),
   approved |-> approved,
   approval_reason |-> reason]

\* ---- agent.py: audit log and session -------------------------------------
\* the audit entry of a result, with the request it belongs to; of the
\* summaries it keeps the safety summary's approved flag
audit_entry(res, req) ==
  [request |-> req,
   stage |-> res.stage,
   success |-> res.success,
   safety_summary |-> IF res.safety_report = <<>> THEN <<>>
                      ELSE <<[approved |-> res.safety_report[1].approved]>>,
   error |-> res.error]

\* variant: the file is opened for writing, not for appending
log_interaction_truncates(log, res, req, write_ok) ==
  IF write_ok THEN <<audit_entry(res, req)>> ELSE log

\* _log_interaction: append one line; a failing write is caught and reported
log_interaction(log, res, req, write_ok) ==
  IF write_ok THEN Append(log, audit_entry(res, req)) ELSE log

\* AgentSession.add_interaction; of the execution result the record keeps
\* whether it exists and its success flag
add_interaction(hist, res, req) ==
  Append(hist, [request |-> req,
                approved |-> res.safety_report[1].approved,
                execution_result |->
                  IF res.execution_result = <<>> THEN <<>>
                  ELSE <<[success |-> res.execution_result[1].success]>>])

\* variant: a failing write raises into the caller, whose except clause runs
after_log_raises(res, write_ok) ==
  IF write_ok THEN res ELSE [res EXCEPT !.error = "Exception", !.stage = "error"]

\* the result dict after _log_interaction returned: the except clause of
\* _log_interaction catches a failing write, the dict is only read
after_log(res, write_ok) == res

\* the finally block of process_request: log, then add to the session history
\* when both a plan and a safety report exist
finally_log(log, res, req, write_ok) == log_interaction(log, res, req, write_ok)

finally_history(hist, res, req) ==
  IF res.plan # <<>> /\ res.safety_report # <<>>
  THEN add_interaction(hist, res, req)
  ELSE hist

\* variant: the except clause records the error and leaves the stage alone
except_handler_keeps_stage(res) == [res EXCEPT !.error = "Exception"]

\* the except clause of process_request
except_handler(res) == [res EXCEPT !.error = "Exception", !.stage = "error"]

\* ---- agent.py: _execute_plan ---------------------------------------------
step_result(step, status) == [step_id |-> step.id, status |-> status]

\* variant: the simulated steps are not counted
execute_dry_run_uncounted(p, fault, at) ==
  LET n == Len(p.plan)
      done == IF fault = "none" THEN n ELSE at
  IN  [success |-> (fault = "none"),
       steps_completed |-> 0,
       total_steps |-> n,
       step_results |-> [i \in 1..done |-> step_result(p.plan[i], "simulated")],
       error |-> IF fault = "none" THEN "None" ELSE "Exception"]

\* variant: success is set although the simulation raised
execute_dry_run_success_on_fault(p, fault, at) ==
  LET n == Len(p.plan)
      done == IF fault = "none" THEN n ELSE at
  IN  [success |-> TRUE,
       steps_completed |-> done,
       total_steps |-> n,
       step_results |-> [i \in 1..done |-> step_result(p.plan[i], "simulated")],
       error |-> IF fault = "none" THEN "None" ELSE "Exception"]

\* dry-run branch; a fault is raised by the print of iteration `at` (after the
\* step's result was appended and counted), or before the loop when at = 0
execute_dry_run(p, fault, at) ==
  LET n == Len(p.plan)
      done == IF fault = "none" THEN n ELSE at
  IN  [success |-> (fault = "none"),
       steps_completed |-> done,
       total_steps |-> n,
       step_results |-> [i \in 1..done |-> step_result(p.plan[i], "simulated")],
       error |-> IF fault = "none" THEN "None" ELSE "Exception"]

\* live branch: every step is recorded as pending and the plan is marked
\* successful; a fault can only be raised by the prints before the loop
execute_live(p, fault) ==
  LET n == Len(p.plan)
  IN  IF fault = "none"
      THEN [success |-> TRUE,
            steps_completed |-> n,
            total_steps |-> n,
            step_results |-> [i \in 1..n |-> step_result(p.plan[i], "pending")],
            error |-> "None"]
      ELSE [success |-> FALSE,
            steps_completed |-> 0,
            total_steps |-> n,
            step_results |-> <<>>,
            error |-> "Exception"]

execute_plan(p, dry, fault, at) ==
  IF dry THEN execute_dry_run(p, fault, at) ELSE execute_live(p, fault)

\* the places where _execute_plan can raise
FaultPoints(p, dry, fault) ==
  IF fault = "none" \/ ~dry THEN {0} ELSE 0..Len(p.plan)

\* ---- initial state -------------------------------------------------------
Init ==
  /\ pc = "idle"
  /\ dry_run_mode \in BOOLEAN
  /\ safe_mode \in BOOLEAN
  /\ requests = 0
  /\ plan = NoPlan
  /\ result = InitialResult
  /\ analysis = analyze_plan(NoPlan)
  /\ step_idx = 1
  /\ prompts = <<>>
  /\ audit_log = <<>>
  /\ history = <<>>
  /\ execute_calls = 0
  /\ first_failing = 0
  /\ tools_invoked = <<>>
  /\ raised = "none"
  /\ failed_writes = 0
  /\ session_context = <<>>
  /\ scanner = new_scanner(safe_mode, dry_run_mode)
  /\ scans = <<>>
  /\ tool_op = [op |-> "none"]
  /\ cli = [now |-> [second |-> 0, late |-> FALSE], sessions |-> <<>>]
  /\ stats = [op |-> "none"]

\* ---- how a request ends --------------------------------------------------
Failed(write_ok) == IF write_ok THEN 0 ELSE 1

\* process_request leaves through its finally block, returning res or letting
\* a KeyboardInterrupt pass to the caller
Leave(res, interrupted, write_ok) ==
  /\ result' = after_log(res, write_ok)
  /\ audit_log' = finally_log(audit_log, res, requests, write_ok)
  /\ failed_writes' = failed_writes + Failed(write_ok)
  /\ history' = finally_history(history, res, requests)
  /\ pc' = IF interrupted THEN "raised" ELSE "returned"

\* a fault raised inside the try block of process_request: an Exception is
\* handled by the except clause, a KeyboardInterrupt is not
Fault(res, fault, write_ok) ==
  /\ raised' = fault
  /\ IF fault = "Exception"
     THEN Leave(except_handler(res), FALSE, write_ok)
     ELSE Leave(res, TRUE, write_ok)

\* process_request after analyze_and_confirm_plan returned (approved, reason):
\* a rejected plan is logged and returned from inside the try block, so the
\* finally block runs after that
Decide(approved, reason, w1, w2) ==
  LET res == [result EXCEPT
                !.safety_report = <<create_safety_report(analysis, approved, reason)>>]
  IN  IF ~approved
      THEN LET rej == [res EXCEPT !.stage = "rejected"]
           IN  /\ result' = after_log(after_log(rej, w1), w2)
               /\ audit_log' = finally_log(log_interaction(audit_log, rej, requests, w1),
                                           rej, requests, w2)
               /\ failed_writes' = failed_writes + Failed(w1) + Failed(w2)
               /\ history' = finally_history(history, rej, requests)
               /\ pc' = "returned"
      ELSE /\ result' = [res EXCEPT !.stage = "execution"]
           /\ pc' = "execution"
           /\ UNCHANGED <<audit_log, history, failed_writes>>

\* a prompt shown to the user: its kind, the step id of a per-step prompt,
\* the value the prompt returned and the fault that ended it instead
Prompt(kind, id, answer, fault) ==
  [kind |-> kind, step_id |-> id, answer |-> answer, fault |-> fault]

\* ---- actions -------------------------------------------------------------
\* process_request is entered: the result dict is created
BeginRequest ==
  /\ pc \in {"idle", "returned", "raised"}
  /\ requests < MaxRequests
  /\ requests' = requests + 1
  /\ result' = InitialResult
  /\ plan' = NoPlan
  /\ analysis' = analyze_plan(NoPlan)
  /\ step_idx' = 1
  /\ prompts' = <<>>
  /\ execute_calls' = 0
  /\ first_failing' = 0
  /\ tools_invoked' = <<>>
  /\ raised' = "none"
  /\ pc' = "planning"
  /\ UNCHANGED <<stats, cli, tool_op, scanner, scans, session_context, dry_run_mode, safe_mode, audit_log, history, failed_writes>>

\* stage 1: the planner returns a plan or fails
CreatePlan ==
  /\ pc = "planning"
  /\ LET res == [result EXCEPT !.stage = "planning"]
     IN  \/ \E p \in Plans :
              /\ plan' = p
              /\ result' = [res EXCEPT !.plan = <<p>>]
              /\ pc' = "safety"
              /\ UNCHANGED <<audit_log, history, raised, failed_writes>>
         \/ \E fault \in FaultKinds \ {"none"}, w \in BOOLEAN :
              /\ Fault(res, fault, w)
              /\ UNCHANGED plan
  /\ UNCHANGED <<stats, cli, tool_op, scanner, scans, session_context, dry_run_mode, safe_mode, requests, analysis, step_idx, prompts,
                 execute_calls, first_failing, tools_invoked>>

\* stage 2: analyze_plan and display_plan, up to the first prompt
AnalyzePlan ==
  /\ pc = "safety"
  /\ LET res == [result EXCEPT !.stage = "safety"]
     IN  \/ /\ analysis' = analyze_plan(plan)
            /\ result' = res
            /\ pc' = FirstPrompt(analyze_plan(plan))
            /\ UNCHANGED <<audit_log, history, raised, failed_writes>>
         \/ \E fault \in FaultKinds \ {"none"}, w \in BOOLEAN :
              /\ Fault(res, fault, w)
              /\ UNCHANGED analysis
  /\ UNCHANGED <<stats, cli, tool_op, scanner, scans, session_context, dry_run_mode, safe_mode, requests, plan, step_idx, prompts,
                 execute_calls, first_failing, tools_invoked>>

\* a prompt that is ended by a fault: the fault leaves analyze_and_confirm_plan
PromptFault(kind, id) ==
  \E fault \in FaultKinds \ {"none"}, w \in BOOLEAN :
    /\ prompts' = Append(prompts, Prompt(kind, id, "", fault))
    /\ Fault(result, fault, w)

\* variant: the reason does not follow the answer
standard_reason_fixed(approved) == "User approved"

\* _get_standard_confirmation (low and medium risk): one yes/no prompt
standard_reason(approved) == IF approved THEN "User approved" ELSE "User rejected"

StandardConfirmation ==
  /\ pc = "standard"
  /\ \/ \E input \in YesNoInputs, w1, w2 \in BOOLEAN :
          LET approved == confirm_ask(input, FALSE)
          IN  /\ prompts' = Append(prompts, Prompt("confirm_prompt", 0, input, "none"))
              /\ Decide(approved, standard_reason(approved), w1, w2)
              /\ UNCHANGED raised
     \/ PromptFault("confirm_prompt", 0)
  /\ UNCHANGED <<stats, cli, tool_op, scanner, scans, session_context, dry_run_mode, safe_mode, requests, plan, analysis, step_idx,
                 execute_calls, first_failing, tools_invoked>>

\* _get_high_risk_confirmation: one iteration of the loop over dangerous_steps
step_rejected_reason(id) == "User rejected step " \o ToString(id)

\* variant: a rejected step does not end the loop
high_risk_next_keeps_asking(approved, k, a) ==
  IF k < Len(a.dangerous_steps) THEN "high_step" ELSE "high_final"

\* variant: the first approved step leads to the final confirmation
high_risk_next_skips_rest(approved, k, a) ==
  IF ~approved THEN "rejected" ELSE "high_final"

\* where the workflow goes after the answer to the prompt of flagged step k
high_risk_next(approved, k, a) ==
  IF ~approved THEN "rejected"
  ELSE IF k < Len(a.dangerous_steps) THEN "high_step" ELSE "high_final"

HighRiskStep ==
  /\ pc = "high_step"
  /\ step_idx <= Len(analysis.dangerous_steps)
  /\ LET step_id == analysis.dangerous_steps[step_idx]
     IN  \/ \E input \in YesNoInputs, w1, w2 \in BOOLEAN :
              LET next == high_risk_next(confirm_ask(input, FALSE), step_idx, analysis)
              IN  /\ prompts' = Append(prompts, Prompt("approve_step", step_id, input, "none"))
                  /\ IF next = "rejected"
                     THEN /\ Decide(FALSE, step_rejected_reason(step_id), w1, w2)
                          /\ UNCHANGED step_idx
                     ELSE /\ step_idx' = step_idx + 1
                          /\ pc' = next
                          /\ UNCHANGED <<result, audit_log, history, failed_writes>>
                  /\ UNCHANGED raised
         \/ /\ PromptFault("approve_step", step_id)
            /\ UNCHANGED step_idx
  /\ UNCHANGED <<stats, cli, tool_op, scanner, scans, session_context, dry_run_mode, safe_mode, requests, plan, analysis,
                 execute_calls, first_failing, tools_invoked>>

\* _get_high_risk_confirmation: the final confirmation
high_risk_reason(approved) ==
  IF approved THEN "User approved high-risk plan"
  ELSE "User rejected final confirmation"

HighRiskFinal ==
  /\ pc = "high_final"
  /\ \/ \E input \in YesNoInputs, w1, w2 \in BOOLEAN :
          LET approved == confirm_ask(input, FALSE)
          IN  /\ prompts' = Append(prompts, Prompt("confirm_prompt", 0, input, "none"))
              /\ Decide(approved, high_risk_reason(approved), w1, w2)
              /\ UNCHANGED raised
     \/ PromptFault("confirm_prompt", 0)
  /\ UNCHANGED <<stats, cli, tool_op, scanner, scans, session_context, dry_run_mode, safe_mode, requests, plan, analysis, step_idx,
                 execute_calls, first_failing, tools_invoked>>

\* variant: the literal is compared without regard to case
literal_matches_any_case(word) == word \in {"CONFIRM", "confirm"}

\* _get_dangerous_confirmation: the CONFIRM literal
literal_matches(word) == word = "CONFIRM"

\* variant: safe mode asks for the password in dry-run too
AfterLiteral_ignores_dry(safe, dry) ==
  IF safe THEN "dangerous_password" ELSE "dangerous_final"

\* the password is asked in safe mode outside dry-run
AfterLiteral(safe, dry) ==
  IF safe /\ ~dry THEN "dangerous_password" ELSE "dangerous_final"

DangerousLiteral ==
  /\ pc = "dangerous_literal"
  /\ \/ \E word \in LiteralInputs, w1, w2 \in BOOLEAN :
          /\ prompts' = Append(prompts, Prompt("type_confirm", 0, word, "none"))
          /\ IF ~literal_matches(word)
             THEN Decide(FALSE, "User failed to type CONFIRM", w1, w2)
             ELSE /\ pc' = AfterLiteral(safe_mode, dry_run_mode)
                  /\ UNCHANGED <<result, audit_log, history, failed_writes>>
          /\ UNCHANGED raised
     \/ PromptFault("type_confirm", 0)
  /\ UNCHANGED <<stats, cli, tool_op, scanner, scans, session_context, dry_run_mode, safe_mode, requests, plan, analysis, step_idx,
                 execute_calls, first_failing, tools_invoked>>

\* _get_dangerous_confirmation: the password; a KeyboardInterrupt is caught
\* here, any other exception leaves the workflow
DangerousPassword ==
  /\ pc = "dangerous_password"
  /\ \/ \E password \in PasswordInputs, w1, w2 \in BOOLEAN :
          /\ prompts' = Append(prompts, Prompt("password", 0, password, "none"))
          /\ IF password = ""
             THEN Decide(FALSE, "No password provided", w1, w2)
             ELSE /\ pc' = "dangerous_final"
                  /\ UNCHANGED <<result, audit_log, history, failed_writes>>
          /\ UNCHANGED raised
     \/ \E w1, w2 \in BOOLEAN :
          /\ prompts' = Append(prompts, Prompt("password", 0, "", "KeyboardInterrupt"))
          /\ Decide(FALSE, "Password entry cancelled", w1, w2)
          /\ UNCHANGED raised
     \/ \E w \in BOOLEAN :
          /\ prompts' = Append(prompts, Prompt("password", 0, "", "Exception"))
          /\ Fault(result, "Exception", w)
  /\ UNCHANGED <<stats, cli, tool_op, scanner, scans, session_context, dry_run_mode, safe_mode, requests, plan, analysis, step_idx,
                 execute_calls, first_failing, tools_invoked>>

\* _get_dangerous_confirmation: the final acknowledgment
dangerous_reason(approved) ==
  IF approved THEN "User confirmed dangerous operation"
  ELSE "User rejected dangerous operation"

DangerousFinal ==
  /\ pc = "dangerous_final"
  /\ \/ \E input \in YesNoInputs, w1, w2 \in BOOLEAN :
          LET approved == confirm_ask(input, FALSE)
          IN  /\ prompts' = Append(prompts, Prompt("acknowledge", 0, input, "none"))
              /\ Decide(approved, dangerous_reason(approved), w1, w2)
              /\ UNCHANGED raised
     \/ PromptFault("acknowledge", 0)
  /\ UNCHANGED <<stats, cli, tool_op, scanner, scans, session_context, dry_run_mode, safe_mode, requests, plan, analysis, step_idx,
                 execute_calls, first_failing, tools_invoked>>

\* process_request after _execute_plan returned er
after_execution(res, er) ==
  [res EXCEPT !.execution_result = <<er>>,
              !.success = er.success,
              !.stage = IF er.success THEN "completed" ELSE "execution_failed"]

\* stage 3: _execute_plan and the stage set from its result; an Exception is
\* caught inside _execute_plan, a KeyboardInterrupt passes through both.  No
\* branch of _execute_plan calls a tool.
ExecutePlan ==
  /\ pc = "execution"
  /\ execute_calls' = execute_calls + 1
  /\ first_failing' \in 0..Len(plan.plan)
  /\ \E fault \in FaultKinds, w \in BOOLEAN :
       \E at \in FaultPoints(plan, dry_run_mode, fault) :
          IF fault = "KeyboardInterrupt"
          THEN Fault(result, fault, w)
          ELSE /\ result' = after_execution(result,
                                            execute_plan(plan, dry_run_mode, fault, at))
               /\ pc' = "report"
               /\ UNCHANGED <<raised, audit_log, history, failed_writes>>
  /\ UNCHANGED <<stats, cli, tool_op, scanner, scans, session_context, dry_run_mode, safe_mode, requests, plan, analysis, step_idx,
                 prompts, tools_invoked>>

\* the print of the outcome, still inside the try block, and the finally
\* block; the print of a failed execution interpolates the execution error
\* into console markup and can raise a MarkupError. The except clause sets
\* error and stage, and its own print interpolates the text of that
\* exception, which repeats the offending tag: the print raises again, the
\* finally block runs and the exception leaves process_request
ReportOutcome ==
  /\ pc = "report"
  /\ \E w \in BOOLEAN :
       \/ /\ Leave(result, FALSE, w)
          /\ UNCHANGED raised
       \/ /\ result.stage = "execution_failed"
          /\ raised' = "Exception"
          /\ Leave(except_handler(result), TRUE, w)
  /\ UNCHANGED <<stats, cli, tool_op, scanner, scans, session_context, dry_run_mode, safe_mode, requests, plan, analysis, step_idx,
                 prompts, execute_calls, first_failing, tools_invoked>>

Next ==
  \/ BeginRequest
  \/ CreatePlan
  \/ AnalyzePlan
  \/ StandardConfirmation
  \/ HighRiskStep
  \/ HighRiskFinal
  \/ DangerousLiteral
  \/ DangerousPassword
  \/ DangerousFinal
  \/ ExecutePlan
  \/ ReportOutcome

Spec == Init /\ [][Next]_vars

\* every prompt returns or is ended by a fault: no prompt blocks for ever
PromptsReturn ==
  /\ WF_vars(StandardConfirmation)
  /\ WF_vars(HighRiskStep)
  /\ WF_vars(HighRiskFinal)
  /\ WF_vars(DangerousLiteral)
  /\ WF_vars(DangerousPassword)
  /\ WF_vars(DangerousFinal)

\* the command line creates a new agent for every request, so an agent
\* processes one request
OneRequest == Next /\ requests' = 1

FairSpec == Init /\ [][OneRequest]_vars /\ PromptsReturn

\* ---- the session over many requests --------------------------------------
\* asterix_adapter.py: the number of lines store_interaction keeps
HistoryCapacity == 10

\* the line store_interaction writes for a result
context_entry(res) ==
  [status |-> IF res.success THEN "ok" ELSE "failed", stage |-> res.stage]

\* OSCARMemoryAdapter.store_interaction: without a memory agent nothing is
\* stored; otherwise the line is appended and the last lines are kept
store_interaction(lines, res, available) ==
  IF ~available THEN lines
  ELSE LET appended == Append(lines, context_entry(res))
       IN  IF Len(appended) > HistoryCapacity
           THEN SubSeq(appended, Len(appended) - HistoryCapacity + 1, Len(appended))
           ELSE appended

\* the result of a request on the empty low-risk plan that reached a decision
SessionResult(approved) ==
  LET decided == [InitialResult EXCEPT
                    !.plan = <<NoPlan>>,
                    !.safety_report =
                       <<create_safety_report(analyze_plan(NoPlan), approved,
                                              standard_reason(approved))>>]
  IN  IF approved
      THEN after_execution(decided, execute_plan(NoPlan, dry_run_mode, "none", 0))
      ELSE [decided EXCEPT !.stage = "rejected"]

\* the session of a dry-run agent in safe mode, before its first request
SessionInit == Init /\ dry_run_mode /\ safe_mode

\* one more processed request: the finally block of process_request adds the
\* interaction to session.history
AddInteraction ==
  /\ requests < MaxInteractions
  /\ \E approved \in BOOLEAN :
       history' = finally_history(history, SessionResult(approved), requests + 1)
  /\ requests' = requests + 1
  /\ UNCHANGED <<stats, cli, tool_op, scanner, scans, pc, dry_run_mode, safe_mode, plan, result, analysis, step_idx,
                 prompts, audit_log, execute_calls, first_failing,
                 tools_invoked, raised, failed_writes, session_context>>

\* a caller of the memory adapter stores the latest interaction; the agent
\* itself never does
StoreInteraction ==
  /\ requests > 0
  /\ \E available \in BOOLEAN :
       session_context' = store_interaction(session_context, SessionResult(TRUE),
                                            available)
  /\ UNCHANGED <<stats, cli, tool_op, scanner, scans, pc, dry_run_mode, safe_mode, requests, plan, result, analysis,
                 step_idx, prompts, audit_log, history, execute_calls,
                 first_failing, tools_invoked, raised, failed_writes>>

SessionNext ==
  \/ AddInteraction
  \/ StoreInteraction

SessionSpec == SessionInit /\ [][SessionNext]_vars

\* ---- the scanner over many analyses ---------------------------------------
\* commands: harmless, matching two dangerous patterns in upper and lower
\* case, and with an admin indicator, a system path and a network indicator
ScanCommands ==
  {<<"ls">>, <<"RM -RF /", "dd if=">>, <<"SUDO", "curl", "/etc">>}

\* first steps: declared low with a command that matches patterns, and
\* declared high with the other commands
ScanFirstSteps ==
  {[risk_level |-> "low", command |-> <<"RM -RF /", "dd if=">>],
   [risk_level |-> "high", command |-> <<"SUDO", "curl", "/etc">>],
   [risk_level |-> "high", command |-> <<"ls">>]}

\* two-step plans of declared risk low, in both id orders, and one-step
\* plans of the other declared risks whose command matches two patterns
ScanPlans ==
  {[plan |-> <<[id |-> ids[1], risk_level |-> f.risk_level, command |-> f.command],
               [id |-> ids[2], risk_level |-> r2, command |-> <<"ls">>]>>,
    risk_level |-> "low"] :
      ids \in {<<1, 2>>, <<2, 1>>}, f \in ScanFirstSteps, r2 \in StepRisks}
  \cup
  {[plan |-> <<[id |-> 1, risk_level |-> "low", command |-> c]>>,
    risk_level |-> pr] :
      c \in ScanCommands \ {<<"ls">>}, pr \in {"medium", "high", "dangerous"}}

ScannerInit == Init /\ dry_run_mode /\ safe_mode

\* analyze_and_confirm_plan up to the choice of the confirmation tier
AnalyzeOnly ==
  /\ Len(scans) < MaxScans
  /\ \E p \in ScanPlans :
       LET a == safety_analysis(scanner, p)
       IN  /\ scans' = Append(scans, [plan |-> p, analysis |-> a, tier |-> FirstPrompt(a)])
           /\ scanner' = after_analyze(scanner, p)
  /\ UNCHANGED <<stats, cli, tool_op, pc, dry_run_mode, safe_mode, requests, plan, result, analysis,
                 step_idx, prompts, audit_log, history, execute_calls,
                 first_failing, tools_invoked, raised, failed_writes,
                 session_context>>

ScannerNext == AnalyzeOnly

ScannerSpec == ScannerInit /\ [][ScannerNext]_vars

\* ---- the tools layer ------------------------------------------------------
\* tools/base.py: ToolRegistry.get_tool on the set of registered tool names
get_tool(tools, name) == IF name \in tools THEN name ELSE "None"

\* ToolRegistry.suggest_tool_for_command: the keyword lists are tried in
\* this order, and a command without any keyword gets no tool
suggest_tool_for_command(tools, command) ==
  IF any_in_lower(<<"mkdir", "ls", "dir", "cd", "cp", "mv", "rm">>, command)
  THEN get_tool(tools, "shell")
  ELSE IF any_in_lower(<<"browse", "search", "download", "web", "http">>, command)
       THEN get_tool(tools, "browser")
       ELSE IF any_in_lower(<<"create file", "copy file", "move file">>, command)
            THEN get_tool(tools, "file_ops")
            ELSE "None"

\* tools/shell.py: ShellTool.dangerous_patterns
shell_dangerous_patterns ==
  <<"rm\\s+-rf\\s+/", "del\\s+/s\\s+/q", "format\\s+c:", "dd\\s+if=",
    ":(){ :|:& };:", "sudo\\s+rm\\s+-rf", "rmdir\\s+/s\\s+/q", "diskpart",
    "fdisk">>

\* ShellTool.safe_commands
safe_commands ==
  {"ls", "dir", "pwd", "cd", "mkdir", "echo", "cat", "type", "find", "grep",
   "which", "where", "python", "pip", "git", "node", "npm", "curl", "wget",
   "ping", "tree", "cp", "copy", "mv", "move", "touch", "whoami", "date",
   "history"}

\* the lists of validate_command
danger_indicators ==
  <<"format", "fdisk", "diskpart", "dd", "mkfs", "parted", "gparted",
    "cfdisk", "sfdisk">>

shell_system_paths ==
  <<"/system", "/boot", "c:\\windows\\system32", "/etc/passwd", "/etc/shadow",
    "registry">>

\* re.search(pattern, command, re.IGNORECASE) for the shell tool's patterns:
\* some word of the command, whatever its case, is text the pattern matches
shell_re_search(pattern, command) ==
  \E i \in 1..Len(command) :
    <<pattern, lower(command[i])>> \in
       {<<"rm\\s+-rf\\s+/", "rm -rf /">>, <<"dd\\s+if=", "dd if=/dev/zero">>,
        <<"fdisk", "fdisk">>, <<"fdisk", "cfdisk">>, <<"diskpart", "diskpart">>}

\* word in text, for the words of the commands below: a text contains itself
\* and the words listed
substring(word, text) ==
  \/ word = text
  \/ <<word, text>> \in
       {<<"dd", "dd if=/dev/zero">>, <<"dd", "address">>,
        <<"mkfs", "mkfs.ext4">>, <<"fdisk", "cfdisk">>,
        <<"/boot", "/boot/grub">>, <<"/etc/passwd", "/ETC/PASSWD">>}

\* indicator in command_lower
in_command_lower(word, command) ==
  \E i \in 1..Len(command) : substring(word, lower(command[i]))

\* command_lower.split()[0], or "" for a command without words
base_command(command) == IF Len(command) = 0 THEN "" ELSE lower(command[1])

\* ShellTool.validate_command: the patterns are tried first, then a base
\* command of the safe list is accepted at once, and only after that the
\* danger indicators and the system paths are looked for
validate_command(command) ==
  IF \E k \in 1..Len(shell_dangerous_patterns) :
        shell_re_search(shell_dangerous_patterns[k], command)
  THEN [is_valid |-> FALSE, reason |-> "Dangerous pattern detected"]
  ELSE IF base_command(command) \in safe_commands
       THEN [is_valid |-> TRUE, reason |-> "Safe command"]
       ELSE IF \E k \in 1..Len(danger_indicators) :
                  in_command_lower(danger_indicators[k], command)
            THEN [is_valid |-> FALSE, reason |-> "Potentially dangerous operation"]
            ELSE IF \E k \in 1..Len(shell_system_paths) :
                       in_command_lower(shell_system_paths[k], command)
                 THEN [is_valid |-> FALSE, reason |-> "Attempt to access system path"]
                 ELSE [is_valid |-> TRUE, reason |-> "Command appears safe"]

\* commands handed to the shell tool, as their words
ShellCommands ==
  {<<"ls">>, <<"make">>, <<"cat", "/etc/passwd">>, <<"echo", "mkfs.ext4">>,
   <<"reboot", "/boot/grub">>, <<"mkfs.ext4">>, <<"RM -RF /">>,
   <<"ls", "cfdisk">>, <<"vi", "/etc/shadow">>, <<>>}

\* what subprocess.run does inside ShellTool.execute
RunOutcomes == {"exit 0", "exit 1", "TimeoutExpired", "FileNotFoundError", "Exception"}

\* ShellTool.execute: a command that validate_command blocks is not run;
\* every exception of the run is turned into a ToolResult
shell_execute(is_valid, outcome) ==
  IF ~is_valid
  THEN [success |-> FALSE, error |-> "Command blocked for safety", raised |-> FALSE]
  ELSE CASE outcome = "exit 0" ->
              [success |-> TRUE, error |-> "None", raised |-> FALSE]
         [] outcome = "exit 1" ->
              [success |-> FALSE, error |-> "Command failed with exit code 1", raised |-> FALSE]
         [] outcome = "TimeoutExpired" ->
              [success |-> FALSE, error |-> "Command timed out", raised |-> FALSE]
         [] outcome = "FileNotFoundError" ->
              [success |-> FALSE, error |-> "Command not found", raised |-> FALSE]
         [] outcome = "Exception" ->
              [success |-> FALSE, error |-> "Execution error", raised |-> FALSE]

\* commands of the steps handed to the tools layer
ToolCommands ==
  {<<"ls">>, <<"mkdir">>, <<"browse">>, <<"download", "rm">>, <<"create file">>,
   <<"search", "create file">>, <<"echo">>}

ToolNames == {"shell", "browser", "file_ops"}

\* a caller asks the registry for a tool for a command
SuggestTool ==
  /\ tool_op.op = "none"
  /\ \E tools \in SUBSET ToolNames, command \in ToolCommands :
       tool_op' = [op |-> "suggest", registered |-> tools, command |-> command,
                   tool |-> suggest_tool_for_command(tools, command)]
  /\ UNCHANGED <<stats, cli, scanner, scans, pc, dry_run_mode, safe_mode, requests, plan,
                 result, analysis, step_idx, prompts, audit_log, history,
                 execute_calls, first_failing, tools_invoked, raised,
                 failed_writes, session_context>>

\* the shell tool runs a command: subprocess.run is reached exactly when
\* validate_command accepts the command
ShellExecute ==
  /\ tool_op.op = "none"
  /\ \E command \in ShellCommands, outcome \in RunOutcomes :
       LET is_valid == validate_command(command).is_valid
       IN  tool_op' = [op |-> "shell", command |-> command,
                       is_valid |-> is_valid, outcome |-> outcome,
                       subprocess_run |-> is_valid,
                       tool_result |-> shell_execute(is_valid, outcome)]
  /\ UNCHANGED <<stats, cli, scanner, scans, pc, dry_run_mode, safe_mode, requests, plan,
                 result, analysis, step_idx, prompts, audit_log, history,
                 execute_calls, first_failing, tools_invoked, raised,
                 failed_writes, session_context>>

\* _execute_plan in live mode on an approved plan, where unavailable_at is
\* the first step that has no available tool and failing_at the first step
\* whose tool run gives the outcome (0: no such step)
ExecuteLive ==
  /\ tool_op.op = "none"
  /\ \E p \in Plans, outcome \in RunOutcomes \ {"exit 0"} :
       \E unavailable_at \in 0..Len(p.plan), failing_at \in 0..Len(p.plan) :
         tool_op' = [op |-> "execute", plan |-> p,
                     unavailable_at |-> unavailable_at,
                     failing_at |-> failing_at,
                     tool_result |-> shell_execute(TRUE, outcome),
                     execution_result |-> execute_plan(p, FALSE, "none", 0)]
  /\ UNCHANGED <<stats, cli, scanner, scans, pc, dry_run_mode, safe_mode, requests, plan,
                 result, analysis, step_idx, prompts, audit_log, history,
                 execute_calls, first_failing, tools_invoked, raised,
                 failed_writes, session_context>>

\* what a Tavily client's search does: it returns results or raises an
\* exception with a message, given as its words
SearchErrors ==
  {<<"Rate", "exceeded">>, <<"usage", "LIMIT">>, <<"HTTP", "429">>,
   <<"timeout">>, <<"invalid", "key">>}

SearchResponses == {<<"ok">>} \cup SearchErrors

\* variant: only the status code 429 counts as a rate limit
is_rate_limit_429_only(message) ==
  \E i \in 1..Len(message) : message[i] = "429"

\* _search_with_fallback, the test of the except clause: "rate" or "limit"
\* in the lowered message, or "429" in the message
is_rate_limit(message) ==
  \/ in_lower("rate", message)
  \/ in_lower("limit", message)
  \/ \E i \in 1..Len(message) : message[i] = "429"

\* _search_with_fallback from client i on: the first client that returns
\* gives the result, a rate-limit error moves on to the next client, any
\* other error is returned at once
RECURSIVE search_from(_, _)
search_from(responses, i) ==
  IF i > Len(responses)
  THEN [success |-> FALSE, source |-> 0, error |-> "All Tavily API keys exhausted or rate limited"]
  ELSE IF responses[i] = <<"ok">>
       THEN [success |-> TRUE, source |-> i, error |-> "None"]
       ELSE IF is_rate_limit(responses[i])
            THEN search_from(responses, i + 1)
            ELSE [success |-> FALSE, source |-> 0, error |-> "Search failed"]

search_with_fallback(responses) == search_from(responses, 1)

\* the clients whose search _search_with_fallback calls, from client i on, in
\* the order of the calls: the loop goes on only after a rate-limit error
RECURSIVE calls_from(_, _)
calls_from(responses, i) ==
  IF i > Len(responses)
  THEN <<>>
  ELSE IF responses[i] # <<"ok">> /\ is_rate_limit(responses[i])
       THEN <<i>> \o calls_from(responses, i + 1)
       ELSE <<i>>

\* variant: every client is called, whatever the earlier ones answered
search_calls_all(responses) == [i \in 1..Len(responses) |-> i]

\* the calls of client.search made by one _search_with_fallback
search_calls(responses) == calls_from(responses, 1)

\* the web search tool searches with its clients
WebSearch ==
  /\ tool_op.op = "none"
  /\ \E n \in 0..MaxClients :
       \E responses \in [1..n -> SearchResponses] :
         tool_op' = [op |-> "search", responses |-> responses,
                     calls |-> search_calls(responses),
                     tool_result |-> search_with_fallback(responses)]
  /\ UNCHANGED <<stats, cli, scanner, scans, pc, dry_run_mode, safe_mode, requests, plan,
                 result, analysis, step_idx, prompts, audit_log, history,
                 execute_calls, first_failing, tools_invoked, raised,
                 failed_writes, session_context>>

\* tools/file_ops.py: FileOpsTool.safe_base_dirs, restricted_dirs and the
\* extensions of safe_extensions that the paths below use
safe_base_dirs == {"cwd", "~/Documents", "~/Desktop", "~/Downloads", "/tmp"}

restricted_dirs == {"/system", "/boot", "/etc", "/usr/bin", "/usr/sbin"}

safe_extensions == {".txt", ".md", ".json", ".py", ".sh"}

critical_files == {".bashrc", ".profile", ".bash_profile", "autoexec.bat", "config.sys"}

\* paths handed to the file tool. under is the directory that path.absolute()
\* lies in as text (absolute() keeps ".." components and relative_to compares
\* components), resolved the directory the file system reaches through it
FilePaths ==
  {[text |-> "notes.txt", under |-> "cwd", resolved |-> "cwd",
    suffix |-> ".txt", name |-> "notes.txt", is_root |-> FALSE],
   [text |-> "/opt/data/notes.txt", under |-> "/opt", resolved |-> "/opt",
    suffix |-> ".txt", name |-> "notes.txt", is_root |-> FALSE],
   [text |-> "/etc/hosts", under |-> "/etc", resolved |-> "/etc",
    suffix |-> "", name |-> "hosts", is_root |-> FALSE],
   [text |-> "../../opt/notes.txt", under |-> "cwd", resolved |-> "/opt",
    suffix |-> ".txt", name |-> "notes.txt", is_root |-> FALSE],
   [text |-> "/tmp/run.exe", under |-> "/tmp", resolved |-> "/tmp",
    suffix |-> ".exe", name |-> "run.exe", is_root |-> FALSE],
   [text |-> "/opt/.bashrc", under |-> "/opt", resolved |-> "/opt",
    suffix |-> "", name |-> ".bashrc", is_root |-> FALSE],
   [text |-> "/", under |-> "/", resolved |-> "/",
    suffix |-> "", name |-> "", is_root |-> TRUE]}

\* FileOpsTool._validate_path_safety: the safe base directories are looked
\* at only when for_write is set and for_read is not
validate_path_safety(path, for_read, for_write, for_delete) ==
  IF path.under \in restricted_dirs
  THEN FALSE
  ELSE IF (for_write \/ for_delete) /\ path.suffix # "" /\ path.suffix \notin safe_extensions
       THEN FALSE
       ELSE IF for_delete /\ (path.is_root \/ path.name \in critical_files)
            THEN FALSE
            ELSE IF for_write /\ ~for_read /\ path.under \notin safe_base_dirs
                 THEN FALSE
                 ELSE TRUE

FileActions == {"create_file", "create_directory", "write", "copy", "move", "delete"}

\* what the file system answers inside the handler's try block
FileOutcomes == {"ok", "exists", "missing", "OSError"}

\* the checks each handler makes before its try block
file_op_allowed(action, source, target) ==
  CASE action \in {"create_file", "create_directory", "write"} ->
         validate_path_safety(target, FALSE, TRUE, FALSE)
    [] action \in {"copy", "move"} ->
         /\ validate_path_safety(source, TRUE, FALSE, FALSE)
         /\ validate_path_safety(target, FALSE, TRUE, FALSE)
    [] action = "delete" ->
         validate_path_safety(target, FALSE, FALSE, TRUE)

\* _create_file, _create_directory, _write_file, _copy, _move, _delete: a
\* refused path gives a failed result before the file system is touched;
\* otherwise the outcome of the file system decides
file_ops_execute(action, source, target, outcome) ==
  IF ~file_op_allowed(action, source, target)
  THEN [success |-> FALSE, error |-> "Unsafe path", fs_changed |-> FALSE]
  ELSE CASE outcome = "OSError" ->
              [success |-> FALSE, error |-> "operation failed", fs_changed |-> FALSE]
         [] outcome = "exists" /\ action \in {"create_file", "write"} ->
              [success |-> FALSE, error |-> "File already exists", fs_changed |-> FALSE]
         [] outcome = "exists" /\ action = "create_directory" ->
              [success |-> TRUE, error |-> "None", fs_changed |-> FALSE]
         [] outcome = "missing" /\ action \in {"copy", "move", "delete"} ->
              [success |-> FALSE, error |-> "does not exist", fs_changed |-> FALSE]
         [] OTHER ->
              [success |-> TRUE, error |-> "None", fs_changed |-> TRUE]

\* the file tool carries out a mutating operation; operations with one path
\* have no source
FileOperation ==
  /\ tool_op.op = "none"
  /\ \E action \in FileActions, source \in FilePaths, target \in FilePaths,
        outcome \in FileOutcomes :
       /\ action \notin {"copy", "move"} => source = target
       /\ tool_op' = [op |-> "file_ops", action |-> action, source |-> source,
                      target |-> target, outcome |-> outcome,
                      tool_result |-> file_ops_execute(action, source, target, outcome)]
  /\ UNCHANGED <<stats, cli, scanner, scans, pc, dry_run_mode, safe_mode, requests, plan,
                 result, analysis, step_idx, prompts, audit_log, history,
                 execute_calls, first_failing, tools_invoked, raised,
                 failed_writes, session_context>>

ToolInit == Init /\ ~dry_run_mode /\ safe_mode

ToolNext ==
  \/ SuggestTool
  \/ ShellExecute
  \/ ExecuteLive
  \/ WebSearch
  \/ FileOperation

ToolSpec == ToolInit /\ [][ToolNext]_vars
\* ---- the CLI loop -----------------------------------------------------------
\* datetime.now(): the clock has parts of a second, here its two halves
later(now) ==
  IF now.late THEN [second |-> now.second + 1, late |-> FALSE]
  ELSE [second |-> now.second, late |-> TRUE]

\* strftime('%Y%m%d_%H%M%S'): the text names the second and nothing below it
strftime(now) == now.second

\* AgentSession._generate_session_id
generate_session_id(now) == <<"session_", strftime(now)>>

\* AgentSession.__init__
new_session(now) ==
  [session_id |-> generate_session_id(now), history |-> <<>>, start_time |-> now]

\* the last n elements of a sequence: history[-n:]
last_of(seq, n) ==
  IF Len(seq) <= n THEN seq ELSE SubSeq(seq, Len(seq) - n + 1, Len(seq))

\* AgentSession.get_recent_context with max_interactions = 3: its lines
get_recent_context(hist) ==
  IF hist = <<>>
  THEN <<"No previous interactions in this session">>
  ELSE <<"Recent actions:">> \o
       [i \in 1..Len(last_of(hist, 3)) |->
          IF last_of(hist, 3)[i].approved THEN "completed" ELSE "rejected"]

\* variant: the agent of the previous request is kept for the next one
session_for_request_persistent(sessions, now) ==
  IF sessions = <<>> THEN new_session(now)
  ELSE sessions[Len(sessions)].session

\* cli/main.py process_user_request: OSCARAgent() is constructed for the
\* request, and with it a new AgentSession
session_for_request(sessions, now) == new_session(now)

\* how a request of the CLI ends
CliOutcomes == {"planning failed", "rejected", "approved"}

\* the result dict of process_request for an outcome
CliResult(outcome) ==
  IF outcome = "planning failed"
  THEN except_handler([InitialResult EXCEPT !.stage = "planning"])
  ELSE SessionResult(outcome = "approved")

CliInit == Init /\ dry_run_mode /\ safe_mode

\* time passes between two requests
Tick ==
  /\ cli.now.second < MaxSecond
  /\ cli' = [cli EXCEPT !.now = later(cli.now)]
  /\ UNCHANGED <<stats, tool_op, scanner, scans, pc, dry_run_mode, safe_mode, requests,
                 plan, result, analysis, step_idx, prompts, audit_log, history,
                 execute_calls, first_failing, tools_invoked, raised,
                 failed_writes, session_context>>

\* process_user_request: a new agent is made, it hands the recent context of
\* its session to the planner, and the finally block of process_request adds
\* the interaction to that session; the request takes some time
ProcessUserRequest ==
  /\ Len(cli.sessions) < MaxSessions
  /\ cli.now.second < MaxSecond
  /\ \E outcome \in CliOutcomes :
       LET session == session_for_request(cli.sessions, cli.now)
           context == get_recent_context(session.history)
           after == [session EXCEPT
                       !.history = finally_history(session.history,
                                                   CliResult(outcome),
                                                   Len(cli.sessions) + 1)]
       IN  cli' = [now |-> later(cli.now),
                   sessions |-> Append(cli.sessions,
                                       [context |-> context, session |-> after])]
  /\ UNCHANGED <<stats, tool_op, scanner, scans, pc, dry_run_mode, safe_mode, requests,
                 plan, result, analysis, step_idx, prompts, audit_log, history,
                 execute_calls, first_failing, tools_invoked, raised,
                 failed_writes, session_context>>

CliNext ==
  \/ Tick
  \/ ProcessUserRequest

CliSpec == CliInit /\ [][CliNext]_vars

\* ---- session statistics ----------------------------------------------------
\* how a request of the session ends
StatsOutcomes ==
  {"planning error", "rejected", "completed", "execution_failed",
   "error after execution_failed"}

\* the result dict of process_request for an outcome
StatsResult(outcome) ==
  LET failed == after_execution(SessionResult(TRUE),
                                execute_plan(NoPlan, dry_run_mode, "Exception", 0))
  IN  CASE outcome = "planning error" ->
             except_handler([InitialResult EXCEPT !.stage = "planning"])
        [] outcome = "rejected" -> SessionResult(FALSE)
        [] outcome = "completed" -> SessionResult(TRUE)
        [] outcome = "execution_failed" -> failed
        [] outcome = "error after execution_failed" -> except_handler(failed)

\* OSCARAgent.get_session_stats: h.get("execution_result", {}) gives the value
\* stored under the key, which add_interaction always sets, so for an
\* interaction without execution result it gives None and .get on it raises
get_session_stats(hist) ==
  IF \E i \in 1..Len(hist) : hist[i].execution_result = <<>>
  THEN [op |-> "get_session_stats", raised |-> "AttributeError"]
  ELSE [op |-> "get_session_stats", raised |-> "none",
        total_interactions |-> Len(hist),
        approved_plans |-> Cardinality({i \in 1..Len(hist) : hist[i].approved}),
        successful_executions |->
          Cardinality({i \in 1..Len(hist) : hist[i].execution_result[1].success})]

StatsInit == Init /\ dry_run_mode /\ safe_mode

\* one more request was processed by the agent: the finally block of
\* process_request adds the interaction to session.history
RequestProcessed ==
  /\ requests < MaxStatsRequests
  /\ \E outcome \in StatsOutcomes :
       history' = finally_history(history, StatsResult(outcome), requests + 1)
  /\ requests' = requests + 1
  /\ UNCHANGED <<stats, cli, tool_op, scanner, scans, pc, dry_run_mode, safe_mode,
                 plan, result, analysis, step_idx, prompts, audit_log,
                 execute_calls, first_failing, tools_invoked, raised,
                 failed_writes, session_context>>

\* a caller asks the agent for the statistics of its session
GetSessionStats ==
  /\ stats' = get_session_stats(history)
  /\ UNCHANGED <<cli, tool_op, scanner, scans, pc, dry_run_mode, safe_mode,
                 requests, plan, result, analysis, step_idx, prompts, audit_log,
                 history, execute_calls, first_failing, tools_invoked, raised,
                 failed_writes, session_context>>

StatsNext ==
  \/ RequestProcessed
  \/ GetSessionStats

StatsSpec == StatsInit /\ [][StatsNext]_vars

\* ---- properties ----------------------------------------------------------
\* process_request has ended, by returning or by letting an exception pass
Ended == pc \in {"returned", "raised"}

\* positions of the audit entries written for request r
EntriesOf(r) == {i \in 1..Len(audit_log) : audit_log[i].request = r}

Approved(res) == res.safety_report # <<>> /\ res.safety_report[1].approved
Rejected(res) == res.safety_report # <<>> /\ ~res.safety_report[1].approved

\* a yes/no prompt that was answered no: the typed n or Enter alone
AnsweredNo(q) == q.fault = "none" /\ q.answer \in {"n", ""}
AnsweredYes(q) == q.fault = "none" /\ q.answer = "y"

\* C1: every process_request call appends exactly one audit entry, so that
\* after N requests the log holds N lines (all writes succeeding)
C1_OneEntryPerRequest ==
  (Ended /\ failed_writes = 0) =>
     /\ Len(audit_log) = requests
     /\ \A r \in 1..requests : Cardinality(EntriesOf(r)) = 1

\* C2: execution never starts without approval: a plan the user did not
\* approve ends in stage rejected with no execution result and no call of
\* _execute_plan, and whenever _execute_plan runs or is about to run the user
\* answered yes to the last prompt of this request
C2_NoExecutionWithoutApproval ==
  /\ Rejected(result) =>
       /\ pc = "returned"
       /\ result.stage = "rejected"
       /\ result.execution_result = <<>>
       /\ execute_calls = 0
  /\ (execute_calls > 0 \/ pc = "execution") =>
       /\ Approved(result)
       /\ prompts # <<>>
       /\ AnsweredYes(prompts[Len(prompts)])
  /\ result.execution_result # <<>> => execute_calls = 1

\* a high-risk plan whose flagged steps were all approved and whose final
\* confirmation was answered no
C2_Witness ==
  /\ pc = "returned"
  /\ plan.risk_level = "high"
  /\ Len(prompts) = MaxSteps + 1
  /\ AnsweredNo(prompts[Len(prompts)])
  /\ Rejected(result) /\ execute_calls = 0

\* C3: for a low or medium risk plan, answering no to the single
\* confirmation returns stage rejected and success false and leaves exactly
\* one audit entry for the request, with approved = false
C3_StandardNoOneEntry ==
  ( /\ pc = "returned"
    /\ result.plan # <<>>
    /\ plan.risk_level \in {"low", "medium"}
    /\ Len(prompts) = 1
    /\ prompts[1].fault = "none" /\ prompts[1].answer = "n"
    /\ failed_writes = 0 ) =>
     /\ result.stage = "rejected"
     /\ result.success = FALSE
     /\ Cardinality(EntriesOf(requests)) = 1
     /\ \A i \in EntriesOf(requests) :
          audit_log[i].safety_summary = <<[approved |-> FALSE]>>

\* C4: in the high-risk confirmation the first no to a per-step prompt ends
\* the workflow at once: the steps asked before it were approved in the order
\* of the flagged steps, the decision is (false, "User rejected step <id>")
\* and no further prompt is issued
C4_FirstNoEndsHighRisk ==
  \A k \in 1..Len(prompts) :
    (prompts[k].kind = "approve_step" /\ AnsweredNo(prompts[k])) =>
       /\ k = Len(prompts)
       /\ \A j \in 1..k :
            /\ prompts[j].kind = "approve_step"
            /\ prompts[j].step_id = analysis.dangerous_steps[j]
            /\ j < k => AnsweredYes(prompts[j])
       /\ pc = "returned"
       /\ result.stage = "rejected"
       /\ result.safety_report # <<>>
       /\ result.safety_report[1].approved = FALSE
       /\ result.safety_report[1].approval_reason =
            "User rejected step " \o ToString(prompts[k].step_id)
       /\ execute_calls = 0

\* three flagged steps, the first approved and the second rejected
C4_Witness ==
  /\ plan.risk_level = "high"
  /\ Len(analysis.dangerous_steps) = 3
  /\ Len(prompts) = 2
  /\ AnsweredYes(prompts[1])
  /\ prompts[2].fault = "none" /\ prompts[2].answer = "n"
  /\ pc = "returned"

\* C5: for a dangerous plan any input other than the exact literal CONFIRM
\* (the empty input included) gives the decision (false, "User failed to type
\* CONFIRM"), and neither the password nor the acknowledgment is asked
C5_WrongLiteralRejects ==
  \A k \in 1..Len(prompts) :
    ( /\ prompts[k].kind = "type_confirm"
      /\ prompts[k].fault = "none"
      /\ prompts[k].answer # "CONFIRM" ) =>
       /\ k = 1 /\ Len(prompts) = 1
       /\ pc = "returned"
       /\ result.stage = "rejected"
       /\ result.safety_report # <<>>
       /\ result.safety_report[1].approved = FALSE
       /\ result.safety_report[1].approval_reason = "User failed to type CONFIRM"
       /\ execute_calls = 0

\* the empty input at the CONFIRM prompt
C5_Witness ==
  /\ plan.risk_level = "dangerous"
  /\ Len(prompts) = 1
  /\ prompts[1].kind = "type_confirm"
  /\ prompts[1].fault = "none" /\ prompts[1].answer = ""
  /\ pc = "returned"

\* C6: a KeyboardInterrupt during any confirmation prompt resolves to the
\* decision (false, "cancelled"): the request ends rejected and no exception
\* leaves the confirmation workflow
C6_InterruptRejects ==
  \A k \in 1..Len(prompts) :
    prompts[k].fault = "KeyboardInterrupt" =>
       /\ pc = "returned"
       /\ result.stage = "rejected"
       /\ result.safety_report # <<>>
       /\ result.safety_report[1].approved = FALSE
       /\ result.safety_report[1].approval_reason = "cancelled"

\* C7: no fault escapes process_request: after any fault (an interrupt
\* included) the call returns a result with stage error and error set, and
\* the fault is in the audit log
C7_NoFaultEscapes ==
  raised # "none" =>
     /\ pc = "returned"
     /\ result.stage = "error"
     /\ result.error # "None"
     /\ failed_writes = 0 =>
          /\ audit_log # <<>>
          /\ audit_log[Len(audit_log)].request = requests
          /\ audit_log[Len(audit_log)].stage = "error"
          /\ audit_log[Len(audit_log)].error = result.error

\* C8: live execution is fail-fast: when step k is the first step whose tool
\* reports failure, steps_completed = k - 1, total_steps = N, success = false
\* and no step after k has a result
C8_LiveFailFast ==
  ( /\ pc = "returned"
    /\ ~dry_run_mode
    /\ result.execution_result # <<>>
    /\ first_failing > 0 ) =>
     LET er == result.execution_result[1]
     IN  /\ er.steps_completed = first_failing - 1
         /\ er.total_steps = Len(plan.plan)
         /\ er.success = FALSE
         /\ Len(er.step_results) <= first_failing

\* every result of the dry-run is the simulated result of the plan's step at
\* the same position
SimulatedPrefix(er) ==
  /\ Len(er.step_results) <= Len(plan.plan)
  /\ \A i \in 1..Len(er.step_results) :
       er.step_results[i] = [step_id |-> plan.plan[i].id, status |-> "simulated"]

C10_SuccessIffComplete ==
  result.execution_result # <<>> =>
     LET er == result.execution_result[1]
     IN  er.success <=> (er.steps_completed = er.total_steps /\ er.error = "None")

\* an execution that counted every step and still failed with an error
C10_Witness ==
  /\ result.execution_result # <<>>
  /\ result.execution_result[1].total_steps > 0
  /\ result.execution_result[1].steps_completed
       = result.execution_result[1].total_steps
  /\ result.execution_result[1].error # "None"
  /\ result.execution_result[1].success = FALSE

\* C11: a step has a result only if every earlier step has a result with
\* status success, or the run was a dry-run with all statuses simulated
C11_ResultsOnlyAfterSuccess ==
  result.execution_result # <<>> =>
     LET sr == result.execution_result[1].step_results
     IN  \/ /\ dry_run_mode
            /\ \A i \in 1..Len(sr) : sr[i].status = "simulated"
         \/ \A i \in 1..Len(sr) : \A j \in 1..(i - 1) : sr[j].status = "success"

\* C12: a failing audit write leaves the returned result as it is without the
\* failure: process_request is left only by a KeyboardInterrupt or by the
\* exception of the print that reports a failed execution, the stage is
\* "error" and the error field is set exactly when an Exception was raised in
\* the pipeline, and otherwise stage and success follow from the decision and
\* the execution result
C12_LogFailureIsObservational ==
  /\ pc = "raised" =>
       \/ raised = "KeyboardInterrupt"
       \/ /\ raised = "Exception"
          /\ result.execution_result # <<>>
          /\ ~result.execution_result[1].success
  /\ Ended =>
       /\ (result.stage = "error") <=> (raised = "Exception")
       /\ (result.error # "None") <=> (raised = "Exception")
       /\ raised = "KeyboardInterrupt" =>
            result.stage \in {"planning", "safety", "execution"}
       /\ raised = "none" =>
            /\ result.safety_report # <<>>
            /\ (result.stage = "rejected") <=> ~result.safety_report[1].approved
            /\ result.safety_report[1].approved =>
                 /\ result.execution_result # <<>>
                 /\ result.success = result.execution_result[1].success
                 /\ result.stage = IF result.success THEN "completed"
                                   ELSE "execution_failed"
            /\ ~result.safety_report[1].approved =>
                 /\ result.execution_result = <<>>
                 /\ ~result.success

\* a rejected request both of whose audit writes failed, and a completed one
\* whose only write failed
C12_Witness ==
  /\ pc = "returned"
  /\ raised = "none"
  /\ \/ result.stage = "rejected" /\ failed_writes = 2
     \/ result.stage = "completed" /\ failed_writes = 1 /\ audit_log = <<>>

\* the stage paths of the claim: the stages that can follow a stage
StageSuccessors(s) ==
  CASE s = "input" -> {"planning", "safety", "rejected", "execution",
                       "completed", "execution_failed", "error"}
    [] s = "planning" -> {"safety", "rejected", "execution",
                          "completed", "execution_failed", "error"}
    [] s = "safety" -> {"rejected", "execution", "completed",
                        "execution_failed", "error"}
    [] s = "execution" -> {"completed", "execution_failed", "error"}
    [] OTHER -> {}

C14_HistoryBounded == Len(history) <= HistoryCapacity

\* C15: for a plan of overall risk low or medium the workflow issues exactly
\* one prompt, the yes/no confirmation with default no; the decision's
\* approved is that answer and its reason is "User approved" for yes and
\* "User rejected" for no
C15_StandardOnePrompt ==
  (result.plan # <<>> /\ plan.risk_level \in {"low", "medium"}) =>
     /\ Len(prompts) <= 1
     /\ \A k \in 1..Len(prompts) : prompts[k].kind = "confirm_prompt"
     /\ result.safety_report # <<>> =>
          /\ result.safety_report[1].overall_risk = plan.risk_level
          /\ Len(prompts) = 1
          /\ prompts[1].fault = "none"
          /\ result.safety_report[1].approved = (prompts[1].answer = "y")
          /\ result.safety_report[1].approval_reason =
               IF prompts[1].answer = "y" THEN "User approved" ELSE "User rejected"

\* Enter alone at the confirmation of a medium-risk plan
C15_Witness ==
  /\ pc = "returned"
  /\ plan.risk_level = "medium"
  /\ prompts = <<Prompt("confirm_prompt", 0, "", "none")>>
  /\ Rejected(result)
  /\ result.safety_report[1].approval_reason = "User rejected"

\* the per-step prompts of the high-risk confirmation, by position
StepPrompts == {k \in 1..Len(prompts) : prompts[k].kind = "approve_step"}

\* the position in the plan of the first step with the given id
PositionOf(id) ==
  CHOOSE i \in 1..Len(plan.plan) :
    /\ plan.plan[i].id = id
    /\ \A j \in 1..(i - 1) : plan.plan[j].id # id

\* the ids of the flagged steps of the plan
FlaggedIds == {plan.plan[i].id : i \in {j \in 1..Len(plan.plan) : IsFlagged(plan.plan[j])}}

\* C16 as stated: the per-step prompts of the high-risk confirmation are
\* issued in ascending step-id order, whatever the order of the plan
C16_AscendingIdOrder ==
  \A j, k \in StepPrompts : j < k => prompts[j].step_id < prompts[k].step_id

\* C16 amended: the per-step prompts are issued in the order in which the
\* flagged steps appear in the plan, each for the id of a flagged step, none
\* twice, and one for every flagged step once the final confirmation is
\* reached
C16_PlanOrder ==
  /\ \A k \in StepPrompts :
       /\ plan.risk_level = "high"
       /\ prompts[k].step_id \in FlaggedIds
  /\ \A j, k \in StepPrompts :
       j < k => PositionOf(prompts[j].step_id) < PositionOf(prompts[k].step_id)
  /\ (plan.risk_level = "high" /\ \E k \in 1..Len(prompts) : prompts[k].kind = "confirm_prompt") =>
       {prompts[k].step_id : k \in StepPrompts} = FlaggedIds

\* a plan listing its steps by descending id, two of them prompted
C16_Witness ==
  /\ plan.risk_level = "high"
  /\ Len(prompts) >= 2
  /\ prompts[1].kind = "approve_step" /\ prompts[2].kind = "approve_step"
  /\ prompts[1].step_id > prompts[2].step_id

\* every flagged step of the analysed plan has been approved individually
AllFlaggedApproved ==
  /\ analysis = analyze_plan(plan)
  /\ Len(prompts) >= Len(analysis.dangerous_steps)
  /\ \A j \in 1..Len(analysis.dangerous_steps) :
       prompts[j].kind = "approve_step" /\ AnsweredYes(prompts[j])

\* C17: in the high-risk confirmation the final yes/no prompt is issued once,
\* after all per-step prompts and only when each of them was answered yes;
\* once every flagged step is approved it is the next prompt; the decision's
\* approved is its answer, so an approved plan had every flagged step and the
\* final prompt answered yes
C17_FinalPromptDecides ==
  plan.risk_level = "high" =>
     /\ \A k \in 1..Len(prompts) :
          prompts[k].kind = "confirm_prompt" =>
             /\ k = Len(prompts)
             /\ k = Len(analysis.dangerous_steps) + 1
             /\ AllFlaggedApproved
             /\ prompts[k].fault = "none" =>
                  /\ result.safety_report # <<>>
                  /\ result.safety_report[1].approved = (prompts[k].answer = "y")
                  /\ result.safety_report[1].approval_reason =
                       IF prompts[k].answer = "y"
                       THEN "User approved high-risk plan"
                       ELSE "User rejected final confirmation"
     /\ AllFlaggedApproved =>
          \/ pc = "high_final" /\ Len(prompts) = Len(analysis.dangerous_steps)
          \/ /\ Len(prompts) = Len(analysis.dangerous_steps) + 1
             /\ prompts[Len(prompts)].kind = "confirm_prompt"
     /\ Approved(result) =>
          /\ AllFlaggedApproved
          /\ Len(prompts) = Len(analysis.dangerous_steps) + 1
          /\ AnsweredYes(prompts[Len(prompts)])

\* MaxSteps flagged steps approved one by one, then the final prompt
\* answered yes
C17_Witness ==
  /\ plan.risk_level = "high"
  /\ Len(analysis.dangerous_steps) = MaxSteps
  /\ Len(prompts) = MaxSteps + 1
  /\ prompts[MaxSteps + 1].kind = "confirm_prompt"
  /\ AnsweredYes(prompts[MaxSteps + 1])
  /\ Approved(result)

\* the literal CONFIRM was typed at the first prompt
LiteralMatched ==
  /\ Len(prompts) >= 1
  /\ prompts[1] = Prompt("type_confirm", 0, "CONFIRM", "none")

\* C18: in the dangerous confirmation, after the literal matched the secret
\* prompt comes next exactly when safe mode is on and dry-run is off; an empty
\* secret or an interrupt during its entry gives a rejecting decision and no
\* acknowledgment; the acknowledgment is asked only after the gates passed
\* and its answer is the decision
C18_DangerousGates ==
  plan.risk_level = "dangerous" =>
     /\ LiteralMatched =>
          IF safe_mode /\ ~dry_run_mode
          THEN \/ pc = "dangerous_password" /\ Len(prompts) = 1
               \/ Len(prompts) >= 2 /\ prompts[2].kind = "password"
          ELSE \/ pc = "dangerous_final" /\ Len(prompts) = 1
               \/ Len(prompts) = 2 /\ prompts[2].kind = "acknowledge"
     /\ \A k \in 1..Len(prompts) :
          /\ prompts[k].kind = "password" =>
               /\ k = 2 /\ LiteralMatched
               /\ safe_mode /\ ~dry_run_mode
               /\ ( \/ prompts[k].fault = "KeyboardInterrupt"
                    \/ prompts[k].fault = "none" /\ prompts[k].answer = "" ) =>
                    /\ Len(prompts) = 2
                    /\ pc = "returned"
                    /\ Rejected(result)
                    /\ result.safety_report[1].approval_reason =
                         IF prompts[k].fault = "none" THEN "No password provided"
                         ELSE "Password entry cancelled"
          /\ prompts[k].kind = "acknowledge" =>
               /\ k = Len(prompts) /\ LiteralMatched
               /\ IF safe_mode /\ ~dry_run_mode
                  THEN /\ k = 3
                       /\ prompts[2].kind = "password"
                       /\ prompts[2].fault = "none" /\ prompts[2].answer # ""
                  ELSE k = 2
               /\ prompts[k].fault = "none" =>
                    /\ result.safety_report # <<>>
                    /\ result.safety_report[1].approved = (prompts[k].answer = "y")
                    /\ result.safety_report[1].approval_reason =
                         IF prompts[k].answer = "y"
                         THEN "User confirmed dangerous operation"
                         ELSE "User rejected dangerous operation"

\* safe mode outside dry-run: the literal matched and the password entry was
\* interrupted
C18_Witness ==
  /\ plan.risk_level = "dangerous"
  /\ safe_mode /\ ~dry_run_mode
  /\ Len(prompts) = 2
  /\ LiteralMatched
  /\ prompts[2] = Prompt("password", 0, "", "KeyboardInterrupt")
  /\ pc = "returned"
  /\ Rejected(result)

\* the confirmation workflow is waiting at a prompt
AtPrompt ==
  pc \in {"standard", "high_step", "high_final",
          "dangerous_literal", "dangerous_password", "dangerous_final"}

\* the largest number of prompts the tier of the analysed plan can issue
PromptBound ==
  IF plan.risk_level = "dangerous" THEN 3
  ELSE IF plan.risk_level = "high" THEN Cardinality(FlaggedIds) + 1
       ELSE 1

\* the prompts issued stay below the bound while the workflow waits at a
\* prompt, never exceed it, and no prompt is issued twice
PromptsBounded ==
  result.plan # <<>> =>
     /\ Len(prompts) <= PromptBound
     /\ AtPrompt => Len(prompts) < PromptBound
     /\ \A j, k \in 1..Len(prompts) :
          j < k => <<prompts[j].kind, prompts[j].step_id>>
                     # <<prompts[k].kind, prompts[k].step_id>>

\* C19: with every prompt returning, the confirmation workflow always ends,
\* with a decision unless a fault ended it, after at most 1 prompt for low
\* and medium risk, |flagged steps| + 1 for high and 3 for dangerous, and it
\* never repeats a prompt
C19_WorkflowTerminates ==
  /\ []PromptsBounded
  /\ [](AtPrompt => result.safety_report = <<>>)
  /\ AtPrompt ~> (~AtPrompt /\ (result.safety_report # <<>> \/ raised # "none"))

\* a dangerous plan decided at its third prompt
C19_Witness ==
  /\ plan.risk_level = "dangerous"
  /\ Len(prompts) = 3
  /\ prompts[3].kind = "acknowledge" /\ prompts[3].fault = "none"
  /\ ~AtPrompt
  /\ result.safety_report # <<>>

\* C20: a plan with a flagged step is never approved through the single
\* standard prompt alone: its approval involved a per-step confirmation of
\* every flagged step or the CONFIRM literal
C20_FlaggedNeedsExtraConfirmation ==
  (Approved(result) /\ FlaggedIds # {}) =>
     \/ LiteralMatched
     \/ \A id \in FlaggedIds :
          \E k \in StepPrompts : prompts[k].step_id = id /\ AnsweredYes(prompts[k])

DeclaredRisky(p) ==
  {i \in 1..Len(p.plan) : p.plan[i].risk_level \in {"high", "dangerous"}}

\* C22: the flagged list of every analysis holds exactly the ids of the steps
\* whose declared risk level is high or dangerous, in plan order, whatever
\* patterns and indicators the commands match
C22_FlaggedByDeclaredRisk ==
  \A n \in 1..Len(scans) :
    LET p == scans[n].plan
        ds == scans[n].analysis.dangerous_steps
    IN  /\ Len(ds) = Cardinality(DeclaredRisky(p))
        /\ \A i \in DeclaredRisky(p) :
             ds[Cardinality({j \in DeclaredRisky(p) : j <= i})] = p.plan[i].id

\* ids in descending order, both steps declared high, and elsewhere a step
\* declared low whose command matches dangerous patterns
C22_Witness ==
  \E n, m \in 1..Len(scans) :
    /\ scans[n].analysis.dangerous_steps = <<2, 1>>
    /\ scans[m].analysis.dangerous_steps = <<>>
    /\ scans[m].analysis.step_analysis[1].patterns_matched # <<>>

\* the confirmation tier a first prompt belongs to
TierOf(first) ==
  CASE first = "dangerous_literal" -> "dangerous"
    [] first \in {"high_step", "high_final"} -> "high"
    [] first = "standard" -> "standard"

PatternFlagSet ==
  {"Dangerous pattern: " \o DangerousPatterns[i] : i \in 1..Len(DangerousPatterns)}

PatternFlagsOf(sa) == SelectSeq(sa.flags, LAMBDA f : f \in PatternFlagSet)

\* the positions of the patterns that match the command
MatchingPatterns(command) ==
  {i \in 1..Len(DangerousPatterns) : re_search(DangerousPatterns[i], command)}

\* C24 as stated: a step contributes at most one dangerous-pattern flag
\* however many patterns its command matches
C24_AtMostOnePatternFlag ==
  \A n \in 1..Len(scans) :
    \A k \in 1..Len(scans[n].analysis.step_analysis) :
      Len(PatternFlagsOf(scans[n].analysis.step_analysis[k])) <= 1

\* C24 amended: every pattern that matches a step's command adds one flag
\* that names the pattern, in the order of the patterns, and the pattern
\* flags come before the step's other flags; nothing stops the check early
C24_OneFlagPerMatchingPattern ==
  \A n \in 1..Len(scans) :
    \A k \in 1..Len(scans[n].analysis.step_analysis) :
      LET sa == scans[n].analysis.step_analysis[k]
          mp == MatchingPatterns(scans[n].plan.plan[k].command)
          pf == PatternFlagsOf(sa)
      IN  /\ Len(pf) = Cardinality(mp)
          /\ \A i \in mp :
               pf[Cardinality({j \in mp : j <= i})]
                 = "Dangerous pattern: " \o DangerousPatterns[i]
          /\ \A i \in 1..Len(pf) : sa.flags[i] = pf[i]

\* a command that matches two patterns
C24_Witness ==
  \E n \in 1..Len(scans) :
    /\ Cardinality(MatchingPatterns(scans[n].plan.plan[1].command)) = 2
    /\ Len(PatternFlagsOf(scans[n].analysis.step_analysis[1])) = 2

\* C25: inference sends filesystem-verb commands to the file tool, browse,
\* search and download commands to the browser tool and every other command
\* to the shell tool, so that it never yields no tool while a shell tool is
\* registered
C25_InferenceCatchAll ==
  tool_op.op = "suggest" =>
     /\ "shell" \in tool_op.registered => tool_op.tool # "None"
     /\ ( /\ any_in_lower(<<"mkdir", "ls", "dir", "cd", "cp", "mv", "rm">>, tool_op.command)
          /\ "file_ops" \in tool_op.registered ) => tool_op.tool = "file_ops"

\* C26: in live mode, when a step has no available tool the executor aborts:
\* no result for that step or a later one, error set, success false
C26_AbortOnUnavailableTool ==
  (tool_op.op = "execute" /\ tool_op.unavailable_at > 0) =>
     /\ Len(tool_op.execution_result.step_results) < tool_op.unavailable_at
     /\ tool_op.execution_result.error # "None"
     /\ tool_op.execution_result.success = FALSE

\* C27: the shell tool never raises, a run that times out, finds no
\* executable or raises gives a ToolResult with success false, and the
\* executor records such a step as failed and runs no step after it
C27_ToolFailureFailsStep ==
  /\ tool_op.op = "shell" =>
       /\ ~tool_op.tool_result.raised
       /\ tool_op.outcome # "exit 0" => ~tool_op.tool_result.success
  /\ ( /\ tool_op.op = "execute"
       /\ tool_op.unavailable_at = 0
       /\ tool_op.failing_at > 0 ) =>
       /\ ~tool_op.tool_result.success
       /\ Len(tool_op.execution_result.step_results) = tool_op.failing_at
       /\ tool_op.execution_result.step_results[tool_op.failing_at].status = "failed"
       /\ tool_op.execution_result.success = FALSE

\* the audit writes of a step that ends a request: a rejected request is
\* written twice, every other request once
WritesOfStep == IF result'.stage = "rejected" THEN 2 ELSE 1

\* C28: the audit log is append-only: a step leaves the lines already written
\* in place and in order, adds one line at the end for every write that
\* succeeded, each the entry of the current request, and adds nothing
\* otherwise
C28_AppendOnly ==
  [][/\ Len(audit_log') >= Len(audit_log)
     /\ SubSeq(audit_log', 1, Len(audit_log)) = audit_log
     /\ \A i \in (Len(audit_log) + 1)..Len(audit_log') :
          audit_log'[i] = audit_entry(result', requests')
     /\ IF pc' \in {"returned", "raised"} /\ pc \notin {"returned", "raised"}
        THEN Len(audit_log') + (failed_writes' - failed_writes)
               = Len(audit_log) + WritesOfStep
        ELSE audit_log' = audit_log]_vars

\* a second line was appended behind the first
C28_Witness ==
  /\ Len(audit_log) = 2
  /\ failed_writes = 0
  /\ pc = "returned"

\* C29: a plan that violates a structural invariant, here a plan without
\* steps, is rejected before use: no prompt is shown for it and it is never
\* executed
C29_InvalidPlanRejected ==
  (result.plan # <<>> /\ plan.plan = <<>>) =>
     /\ ~AtPrompt
     /\ prompts = <<>>
     /\ pc # "execution"
     /\ execute_calls = 0

\* the error messages that contain 'rate', 'limit' or '429'
RateLimitErrors == {<<"Rate", "exceeded">>, <<"usage", "LIMIT">>, <<"HTTP", "429">>}

\* the first client whose response is not a rate-limit error, 0 if none
FirstDeciding(responses) ==
  IF \A i \in 1..Len(responses) : responses[i] \in RateLimitErrors
  THEN 0
  ELSE CHOOSE i \in 1..Len(responses) :
         /\ responses[i] \notin RateLimitErrors
         /\ \A j \in 1..(i - 1) : responses[j] \in RateLimitErrors

\* C30: the search succeeds, with the result of that client, exactly when
\* some client succeeds and every client before it failed with a rate-limit
\* error; it fails when all clients are rate limited and when a client fails
\* with another error
C30_FallbackOnRateLimit ==
  tool_op.op = "search" =>
     LET k == FirstDeciding(tool_op.responses)
         r == tool_op.tool_result
     IN  IF k = 0
         THEN ~r.success /\ r.error = "All Tavily API keys exhausted or rate limited"
         ELSE IF tool_op.responses[k] = <<"ok">>
              THEN r.success /\ r.source = k /\ r.error = "None"
              ELSE ~r.success /\ r.error = "Search failed"

\* two clients rate limited in different words, the third succeeds
C30_Witness ==
  /\ tool_op.op = "search"
  /\ tool_op.responses = <<<<"Rate", "exceeded">>, <<"usage", "LIMIT">>, <<"ok">>>>
  /\ tool_op.tool_result.success
  /\ tool_op.tool_result.source = 3

\* the protected system paths and danger indicators of validate_command
ProtectedWords ==
  {danger_indicators[k] : k \in 1..Len(danger_indicators)}
  \cup {shell_system_paths[k] : k \in 1..Len(shell_system_paths)}

\* C31: the shell tool rejects, and starts no subprocess for, any command
\* that references a protected system path or contains a danger indicator,
\* whatever the command's first word is
C31_SystemPathsProtected ==
  ( /\ tool_op.op = "shell"
    /\ \E w \in ProtectedWords : in_command_lower(w, tool_op.command) ) =>
     /\ ~tool_op.is_valid
     /\ ~tool_op.subprocess_run
     /\ ~tool_op.tool_result.success

\* C32: every mutating operation of the file tool whose target path lies
\* outside the safe base directories is refused, with success false and no
\* change of the file system
C32_SafeDirectoriesOnly ==
  ( /\ tool_op.op = "file_ops"
    /\ tool_op.target.resolved \notin safe_base_dirs ) =>
     /\ ~tool_op.tool_result.success
     /\ ~tool_op.tool_result.fs_changed

\* C33: any two sessions created in one run, also two created within the
\* same clock second, have different session identifiers
C33_SessionIdsUnique ==
  \A i, j \in 1..Len(cli.sessions) :
    i # j => cli.sessions[i].session.session_id # cli.sessions[j].session.session_id

\* C34: _search_with_fallback calls each client at most once, in list order
\* from the first, calls no client after the first success or the first
\* error that is not a rate limit, and so makes at most len(clients) calls
C34_EachClientAtMostOnce ==
  tool_op.op = "search" =>
     /\ Len(tool_op.calls) <= Len(tool_op.responses)
     /\ \A k \in 1..Len(tool_op.calls) : tool_op.calls[k] = k
     /\ \A k \in 1..(Len(tool_op.calls) - 1) :
          tool_op.responses[tool_op.calls[k]] \in RateLimitErrors

\* a search whose first client is rate limited and whose second succeeds,
\* with a third client left uncalled
C34_Witness ==
  /\ tool_op.op = "search"
  /\ Len(tool_op.responses) = MaxClients
  /\ tool_op.responses[1] \in RateLimitErrors
  /\ tool_op.responses[2] = <<"ok">>
  /\ tool_op.calls = <<1, 2>>

C35_WitnessError ==
  /\ pc = "returned"
  /\ result.stage = "error"
  /\ result.error # "None"

\* C36: every entry of the audit log records a terminal stage (rejected,
\* completed, execution_failed or error), also when an interrupt cuts the
\* request short
C36_LoggedStageIsTerminal ==
  \A i \in 1..Len(audit_log) :
    audit_log[i].stage \in {"rejected", "completed", "execution_failed", "error"}

\* the confirmation of the current request has begun: the plan was analysed
\* and a tier was entered
ConfirmationBegun ==
  /\ analysis = analyze_plan(plan)
  /\ pc \notin {"idle", "planning", "safety"}
  /\ result.plan # <<>>
  /\ result.stage # "planning"

\* C37: for a plan of overall risk high without a flagged step the high-risk
\* confirmation issues no per-step prompt and one final yes/no prompt, and
\* the answer to that prompt alone decides approval
C37_HighRiskNoFlaggedSteps ==
  ( /\ ConfirmationBegun
    /\ plan.risk_level = "high"
    /\ analysis.dangerous_steps = <<>> ) =>
     /\ StepPrompts = {}
     /\ \A k \in 1..Len(prompts) : prompts[k].kind = "confirm_prompt"
     /\ IF pc = "high_final" THEN prompts = <<>> ELSE Len(prompts) = 1
     /\ (Len(prompts) = 1 /\ prompts[1].fault = "none") =>
          /\ result.safety_report # <<>>
          /\ result.safety_report[1].approved = (prompts[1].answer = "y")

\* a high-risk plan with steps, none of them flagged, approved by the one
\* final prompt and executed
C37_Witness ==
  /\ ConfirmationBegun
  /\ plan.risk_level = "high"
  /\ Len(plan.plan) > 0
  /\ analysis.dangerous_steps = <<>>
  /\ prompts = <<Prompt("confirm_prompt", 0, "y", "none")>>
  /\ Approved(result)
  /\ execute_calls = 1

\* C38: get_session_stats returns normally after any sequence of processed
\* requests, and its counts satisfy
\* successful_executions <= approved_plans <= total_interactions
C38_StatsReturnAndOrdered ==
  stats.op = "get_session_stats" =>
     /\ stats.raised = "none"
     /\ stats.successful_executions <= stats.approved_plans
     /\ stats.approved_plans <= stats.total_interactions

\* C39: in the CLI loop every request is processed by a newly created agent,
\* so the context handed to the planner is always the empty-history text,
\* whatever was processed before; history never carries over to the next
\* request
C39_ContextAlwaysEmpty ==
  \A i \in 1..Len(cli.sessions) :
    /\ cli.sessions[i].context = <<"No previous interactions in this session">>
    /\ Len(cli.sessions[i].session.history) <= 1

\* a second request is planned with the empty-history text although the
\* first request left an interaction in the history of its own session
C39_Witness ==
  /\ Len(cli.sessions) >= 2
  /\ Len(cli.sessions[1].session.history) = 1
  /\ cli.sessions[2].context = <<"No previous interactions in this session">>
  /\ Len(cli.sessions[2].session.history) = 1
====
